---- MODULE Spec2Model ----
(***************************************************************************)
(* Model of lemur.authorities.service: the service-level functions that    *)
(* create, update, look up and list certificate authorities.               *)
(*                                                                         *)
(* Text values are sequences of chunks (<<"owner", ";", "alice">> is the   *)
(* string "owner;alice"), so that split and substring tests are computed.  *)
(* Every request runs for one acting identity (g.current_user); requests   *)
(* of different identities interleave at their database commits.           *)
(***************************************************************************)
EXTENDS Integers, Sequences, FiniteSets, TLC

\* ------------------------------------------------------------------ bounds
MaxCreates == 2          \* create requests started in one behaviour
MaxUpdates == 1          \* update requests in one behaviour
MaxDescriptors == 2      \* role descriptors one plugin call returns

\* ------------------------------------------------------------------ values
\* Python's None, and a key a dictionary lacks; no text of the model is empty
None == <<>>
\* a NULL foreign key; row ids start at 1
NoId == 0

Users == {"carol", "alice"}
Admins == {"carol"}

CaNames == {<<"ca1">>, <<"ca2">>}
OwnerEmails == {<<"alice">>, <<"bob">>}
Descriptions == {<<"active", "root">>}
PluginRegistry == {<<"verisign">>}
RoleNames == {<<"r1">>, <<"r2">>}
Usernames == {"admin", "user"}
Passwords == {"pw"}

Range(s) == {s[i] : i \in DOMAIN s}

SeqsUpTo(S, n) == UNION {[1..k -> S] : k \in 0..n}

\* an optional argument that was supplied: None is distinct from an empty
\* list and from False
Some(x) == <<x>>

\* g.current_user.is_admin
is_admin(u) == u \in Admins

\* ------------------------------------------------------------------ inputs
\* the keyword dictionary a caller hands to create: every required key
\* present, or exactly one of them absent
FullKwargs ==
    [caName : CaNames, ownerEmail : {<<"alice">>}, pluginName : PluginRegistry,
     caDescription : Descriptions]

Without(kw, key) == [kw EXCEPT ![key] = None]

BaseKwargs == [caName |-> <<"ca1">>, ownerEmail |-> <<"alice">>,
               pluginName |-> <<"verisign">>, caDescription |-> <<"active", "root">>]

KwargsSet ==
    FullKwargs \cup {Without(BaseKwargs, k) :
                       k \in {"caName", "ownerEmail", "pluginName", "caDescription"}}

\* what issuer.create_authority may return as issuer_roles
Descriptor ==
    {d \in [name : RoleNames, username : Usernames, password : Passwords] :
        d.name = <<"r1">> \/ d.username = "user"}
IssuerRoles == SeqsUpTo(Descriptor, MaxDescriptors)

\* the narrower inputs of the specification that serves requests one at a
\* time: complete keyword dictionaries, role names with one credential each
SerialKwargs == FullKwargs
SerialIssuerRoles ==
    SeqsUpTo({d \in Descriptor : (d.name = <<"r1">>) <=> (d.username = "admin")},
             MaxDescriptors)

\* ------------------------------------------------------------------ state
VARIABLES
    certificates,       \* persisted Certificate rows, id = position
    roles,              \* persisted Role rows, id = position
    authorities,        \* persisted Authority rows, id = position
    user_roles,         \* g.current_user.roles, per identity
    user_authorities,   \* g.current_user.authorities, per identity
    pc,                 \* where each identity's create request stands
    frame,              \* the locals of each identity's create request
    creates,            \* create requests started so far
    updates,            \* update requests so far
    last                \* the step just taken: operation, caller, outcome

vars == <<certificates, roles, authorities, user_roles, user_authorities,
          pc, frame, creates, updates, last>>

db == <<certificates, roles, authorities>>

NoFrame == [kwargs |-> None, cert_body |-> NoId, issuer_roles |-> <<>>,
            role_objs |-> <<>>, cert |-> None, authority |-> None]

Quiet == [op |-> "none"]

Init ==
    /\ certificates = <<>>
    /\ roles = <<>>
    /\ authorities = <<>>
    /\ user_roles = [u \in Users |-> <<>>]
    /\ user_authorities = [u \in Users |-> <<>>]
    /\ pc = [u \in Users |-> "idle"]
    /\ frame = [u \in Users |-> NoFrame]
    /\ creates = 0
    /\ updates = 0
    /\ last = Quiet

\* ------------------------------------------------------------------ models
\* Authority.roles: the Role rows whose foreign key names the authority
RolesOf(table, aid) == {r \in DOMAIN table : table[r].authority_id = aid}

AuthorityRoles(aid) == RolesOf(roles, aid)

\* role.authority for a role id
RoleAuthority(r) == roles[r].authority_id

\* ------------------------------------------------------------------ plugins
\* plugins.get(slug): the registered issuer, or a lookup failure
plugins_get(slug) == IF slug \in PluginRegistry THEN slug ELSE None

\* ------------------------------------------------------------------ roles
RolesNamed(name) == {r \in DOMAIN roles : roles[r].name = name}

NewRole(name, password, description, username) ==
    [name |-> name, username |-> username, password |-> password,
     description |-> description, authority_id |-> NoId]

\* a role service that inserts a new row whatever rows exist
role_service_create_always(name, password, description, username) ==
    <<"ok", Len(roles) + 1,
      Append(roles, NewRole(name, password, description, username))>>

\* role_service.create: an existing role of that name is reused when its
\* credential is the supplied one and refused when it is not; the value is
\* <<status, role id, roles table>>
role_service_create(name, password, description, username) ==
    IF RolesNamed(name) = {}
    THEN <<"ok", Len(roles) + 1,
           Append(roles, NewRole(name, password, description, username))>>
    ELSE LET r == CHOOSE x \in RolesNamed(name) : TRUE IN
         IF roles[r].username = username /\ roles[r].password = password
         THEN <<"ok", r, roles>>
         ELSE <<"DuplicateRoleError", NoId, roles>>

\* ------------------------------------------------------------------ database
\* database.update(cert): the certificate row is committed
database_update_cert(cert) == Append(certificates, cert)

AuthoritiesNamed(name) == {a \in DOMAIN authorities : authorities[a].name = name}

\* the unique constraint on Authority.name (NULL names never collide)
NameTaken(name) == name # None /\ AuthoritiesNamed(name) # {}

\* database.create(authority): the row is committed and the roles handed to
\* the constructor are bound to it
database_create_authority(authority) == Append(authorities, authority)

BindRoles(table, role_ids, aid) ==
    [r \in DOMAIN table |->
        IF r \in role_ids THEN [table[r] EXCEPT !.authority_id = aid]
        ELSE IF table[r].authority_id = aid
             THEN [table[r] EXCEPT !.authority_id = NoId]
             ELSE table[r]]

\* ------------------------------------------------------------------ create
Finish(u, op, status) == [op |-> op, user |-> u, status |-> status]

\* a create that commits a Certificate row before it calls the issuer
CreatePluginFailsAfterWrite(u, kw) ==
    /\ pc[u] = "idle"
    /\ creates < MaxCreates
    /\ creates' = creates + 1
    /\ certificates' = Append(certificates,
                              [body |-> creates + 1, chain |-> None,
                               owner |-> kw.ownerEmail, description |-> None,
                               user |-> u, notifications |-> None])
    /\ last' = Finish(u, "create",
                      IF plugins_get(kw.pluginName) = None THEN "KeyError"
                      ELSE "ProvisioningError")
    /\ UNCHANGED <<roles, authorities, user_roles, user_authorities, pc, frame,
                   updates>>

\* lines 54-67: the issuer is looked up and called, then the Certificate
\* object is built; nothing is written
CreatePluginFails(u, kw) ==
    /\ pc[u] = "idle"
    /\ creates < MaxCreates
    /\ creates' = creates + 1
    /\ last' = Finish(u, "create",
                      IF plugins_get(kw.pluginName) = None THEN "KeyError"
                      ELSE "ProvisioningError")
    /\ UNCHANGED <<db, user_roles, user_authorities, pc, frame, updates>>

Certificate(cert_body, kw, u) ==
    [body |-> cert_body, chain |-> <<"chain">>, owner |-> kw.ownerEmail,
     description |-> <<"ROOT certificate for">> \o
                     (IF kw.caName = None THEN <<"None">> ELSE kw.caName),
     user |-> u, notifications |-> <<"DEFAULT_SECURITY">>]

CreatePlugin(u, kw, issuer_roles) ==
    /\ pc[u] = "idle"
    /\ creates < MaxCreates
    /\ plugins_get(kw.pluginName) # None
    /\ creates' = creates + 1
    /\ IF kw.ownerEmail = None
       THEN /\ last' = Finish(u, "create", "KeyError")
            /\ UNCHANGED <<pc, frame>>
       ELSE /\ pc' = [pc EXCEPT ![u] = "roles"]
            /\ frame' = [frame EXCEPT ![u] =
                  [kwargs |-> kw, cert_body |-> creates + 1,
                   issuer_roles |-> issuer_roles, role_objs |-> <<>>,
                   cert |-> Certificate(creates + 1, kw, u),
                   authority |-> None]]
            /\ last' = Quiet
    /\ UNCHANGED <<db, user_roles, user_authorities, updates>>

\* a loop turn that grants the admin role to every identity
CreateRoleGrantsAll(u) ==
    /\ pc[u] = "roles"
    /\ frame[u].issuer_roles # <<>>
    /\ LET r == Head(frame[u].issuer_roles)
           res == role_service_create(
                      r.name, r.password,
                      frame[u].kwargs.pluginName \o <<"auto generated role">>,
                      r.username)
       IN IF res[1] # "ok"
          THEN /\ pc' = [pc EXCEPT ![u] = "idle"]
               /\ frame' = [frame EXCEPT ![u] = NoFrame]
               /\ last' = Finish(u, "create", res[1])
               /\ UNCHANGED <<roles, user_roles>>
          ELSE /\ roles' = res[3]
               /\ user_roles' =
                     IF res[3][res[2]].username = "admin"
                     THEN [v \in Users |-> Append(user_roles[v], res[2])]
                     ELSE user_roles
               /\ frame' = [frame EXCEPT
                     ![u].issuer_roles = Tail(@),
                     ![u].role_objs = Append(@, res[2])]
               /\ last' = Quiet
               /\ UNCHANGED pc
    /\ UNCHANGED <<certificates, authorities, user_authorities, creates, updates>>

\* lines 71-83: one turn of the loop over issuer_roles
CreateRole(u) ==
    /\ pc[u] = "roles"
    /\ frame[u].issuer_roles # <<>>
    /\ LET r == Head(frame[u].issuer_roles)
           res == role_service_create(
                      r.name, r.password,
                      frame[u].kwargs.pluginName \o <<"auto generated role">>,
                      r.username)
       IN IF res[1] # "ok"
          THEN /\ pc' = [pc EXCEPT ![u] = "idle"]
               /\ frame' = [frame EXCEPT ![u] = NoFrame]
               /\ last' = Finish(u, "create", res[1])
               /\ UNCHANGED <<roles, user_roles>>
          ELSE /\ roles' = res[3]
               /\ user_roles' =
                     IF res[3][res[2]].username = "admin"
                     THEN [user_roles EXCEPT ![u] = Append(@, res[2])]
                     ELSE user_roles
               /\ frame' = [frame EXCEPT
                     ![u].issuer_roles = Tail(@),
                     ![u].role_objs = Append(@, res[2])]
               /\ last' = Quiet
               /\ UNCHANGED pc
    /\ UNCHANGED <<certificates, authorities, user_authorities, creates, updates>>

\* lines 85-93: Authority(...), with the column default of the active flag
Authority(kw, cert_body, active) ==
    [name |-> kw.caName, owner |-> kw.ownerEmail, plugin_name |-> kw.pluginName,
     body |-> cert_body, chain |-> <<"chain">>,
     description |-> kw.caDescription, active |-> active]

\* a create that never commits its Certificate
CreateUpdateCertSkipped(u) ==
    /\ pc[u] = "roles"
    /\ frame[u].issuer_roles = <<>>
    /\ IF frame[u].kwargs.caDescription = None
       THEN /\ pc' = [pc EXCEPT ![u] = "idle"]
            /\ frame' = [frame EXCEPT ![u] = NoFrame]
            /\ last' = Finish(u, "create", "KeyError")
       ELSE /\ \E active \in BOOLEAN :
                 frame' = [frame EXCEPT ![u].authority =
                              Authority(frame[u].kwargs, frame[u].cert_body, active)]
            /\ pc' = [pc EXCEPT ![u] = "authority"]
            /\ last' = Quiet
    /\ UNCHANGED <<certificates, roles, authorities, user_roles, user_authorities,
                   creates, updates>>

\* lines 85-95: the Authority object is built (a missing key raises here),
\* then database.update(cert) commits the Certificate
CreateUpdateCert(u) ==
    /\ pc[u] = "roles"
    /\ frame[u].issuer_roles = <<>>
    /\ IF frame[u].kwargs.caDescription = None
       THEN /\ pc' = [pc EXCEPT ![u] = "idle"]
            /\ frame' = [frame EXCEPT ![u] = NoFrame]
            /\ last' = Finish(u, "create", "KeyError")
            /\ UNCHANGED certificates
       ELSE /\ \E active \in BOOLEAN :
                 frame' = [frame EXCEPT ![u].authority =
                              Authority(frame[u].kwargs, frame[u].cert_body, active)]
            /\ certificates' = database_update_cert(frame[u].cert)
            /\ pc' = [pc EXCEPT ![u] = "authority"]
            /\ last' = Quiet
    /\ UNCHANGED <<roles, authorities, user_roles, user_authorities,
                   creates, updates>>

\* a create whose commit replaces the row that already has the name
CreateAuthorityOverwrites(u) ==
    /\ pc[u] = "authority"
    /\ IF NameTaken(frame[u].authority.name)
       THEN LET old == CHOOSE a \in AuthoritiesNamed(frame[u].authority.name) : TRUE
            IN /\ authorities' = [authorities EXCEPT ![old] = frame[u].authority]
               /\ roles' = BindRoles(roles, Range(frame[u].role_objs), old)
               /\ user_authorities' =
                     [user_authorities EXCEPT ![u] = Append(@, old)]
               /\ last' = [op |-> "create", user |-> u, status |-> "ok",
                           id |-> old, role_objs |-> frame[u].role_objs]
       ELSE /\ authorities' = database_create_authority(frame[u].authority)
            /\ roles' = BindRoles(roles, Range(frame[u].role_objs),
                                  Len(authorities) + 1)
            /\ user_authorities' =
                  [user_authorities EXCEPT ![u] = Append(@, Len(authorities) + 1)]
            /\ last' = [op |-> "create", user |-> u, status |-> "ok",
                        id |-> Len(authorities) + 1,
                        role_objs |-> frame[u].role_objs]
    /\ pc' = [pc EXCEPT ![u] = "idle"]
    /\ frame' = [frame EXCEPT ![u] = NoFrame]
    /\ UNCHANGED <<certificates, user_roles, creates, updates>>

\* lines 96-100: database.create(authority), then the creator is linked
CreateAuthority(u) ==
    /\ pc[u] = "authority"
    /\ IF NameTaken(frame[u].authority.name)
       THEN /\ last' = Finish(u, "create", "IntegrityError")
            /\ UNCHANGED <<authorities, roles, user_authorities>>
       ELSE /\ authorities' = database_create_authority(frame[u].authority)
            /\ roles' = BindRoles(roles, Range(frame[u].role_objs),
                                  Len(authorities) + 1)
            /\ user_authorities' =
                  [user_authorities EXCEPT ![u] = Append(@, Len(authorities) + 1)]
            /\ last' = [op |-> "create", user |-> u, status |-> "ok",
                        id |-> Len(authorities) + 1,
                        role_objs |-> frame[u].role_objs]
    /\ pc' = [pc EXCEPT ![u] = "idle"]
    /\ frame' = [frame EXCEPT ![u] = NoFrame]
    /\ UNCHANGED <<certificates, user_roles, creates, updates>>

\* ------------------------------------------------------------------ next
\* ------------------------------------------------------------------ lookups
\* database.get(Authority, authority_id): the row (named by its id) or nothing
get(authority_id) ==
    IF authority_id \in DOMAIN authorities THEN authority_id ELSE NoId

\* database.get(Authority, authority_name, field='name')
get_by_name(authority_name) ==
    IF AuthoritiesNamed(authority_name) = {} THEN NoId
    ELSE CHOOSE a \in AuthoritiesNamed(authority_name) : TRUE

\* the rows of a query in the order the database keeps them
AllAuthorities == [i \in 1..Len(authorities) |-> i]

\* lines 103-111
get_all == AllAuthorities

\* ------------------------------------------------------------------ text
\* s.split(sep), for a string that holds sep at most once
Split(s, sep) ==
    IF \E i \in DOMAIN s : s[i] = sep
    THEN LET i == CHOOSE j \in DOMAIN s : s[j] = sep
         IN <<SubSeq(s, 1, i - 1), SubSeq(s, i + 1, Len(s))>>
    ELSE <<s>>

\* t in s: t occurs in s as a run of consecutive chunks
Contains(s, t) ==
    \E i \in 0..(Len(s) - Len(t)) : SubSeq(s, i + 1, i + Len(t)) = t

\* ------------------------------------------------------------------ role resolver
\* a resolver that returns the last matching Role an identity holds
LastHeld(held, ca_name) ==
    LET hits == {i \in DOMAIN held :
                    /\ RoleAuthority(held[i]) # NoId
                    /\ authorities[RoleAuthority(held[i])].name = ca_name}
    IN IF hits = {} THEN NoId
       ELSE held[CHOOSE i \in hits : \A j \in hits : i >= j]

\* lines 147-151: the first Role the identity holds whose Authority has the name
FirstHeld(held, ca_name) ==
    LET hits == {i \in DOMAIN held :
                    /\ RoleAuthority(held[i]) # NoId
                    /\ authorities[RoleAuthority(held[i])].name = ca_name}
    IN IF hits = {} THEN NoId
       ELSE held[CHOOSE i \in hits : \A j \in hits : i <= j]

\* lines 143-151: the outcomes get_authority_role can have; the order of
\* authority.roles is the database's, so roles[0] may be any of them
get_authority_role(u, ca_name) ==
    IF is_admin(u)
    THEN LET authority == get_by_name(ca_name) IN
         IF authority = NoId
         THEN {[status |-> "AttributeError", value |-> NoId]}
         ELSE IF AuthorityRoles(authority) = {}
              THEN {[status |-> "IndexError", value |-> NoId]}
              ELSE {[status |-> "ok", value |-> r] : r \in AuthorityRoles(authority)}
    ELSE {[status |-> "ok", value |-> FirstHeld(user_roles[u], ca_name)]}

\* ------------------------------------------------------------------ render
\* the text the database compares a boolean column with
BoolText(b) == IF b THEN <<"true">> ELSE <<"false">>

\* the column of an Authority row a filter or sort names
Column(aid, field) ==
    IF field = <<"owner">> THEN authorities[aid].owner
    ELSE IF field = <<"name">> THEN authorities[aid].name
    ELSE IF field = <<"description">> THEN authorities[aid].description
    ELSE None

\* database.filter(query, Authority, terms): the named column contains the value
database_filter(q, terms) ==
    LET Keep(aid) == Contains(Column(aid, terms[1]), terms[2])
    IN SelectSeq(q, Keep)

\* lines 167-172
Filtered(q, filt) ==
    IF filt = None THEN q
    ELSE LET terms == Split(filt, ";") IN
         IF Contains(filt, <<"active">>)
         THEN LET Keep(aid) == BoolText(authorities[aid].active) = terms[2]
              IN SelectSeq(q, Keep)
         ELSE database_filter(q, terms)

\* a render that restricts nobody
VisibleToAll(q, u) == q

\* lines 175-180
Visible(q, u) ==
    IF is_admin(u) THEN q
    ELSE LET authority_ids ==
                 {RoleAuthority(user_roles[u][i]) : i \in DOMAIN user_roles[u]}
                     \ {NoId}
             Keep(aid) == aid \in authority_ids
         IN SelectSeq(q, Keep)

Reverse(q) == [i \in DOMAIN q |-> q[Len(q) + 1 - i]]

\* database.sort(query, Authority, sort_by, sort_dir), on the id column
database_sort(q, sort_by, sort_dir) ==
    IF sort_dir = <<"desc">> THEN Reverse(q) ELSE q

Min(a, b) == IF a < b THEN a ELSE b

\* database.paginate(query, page, count)
database_paginate(q, page, count) ==
    [items |-> SubSeq(q, (page - 1) * count + 1, Min(page * count, Len(q))),
     total |-> Len(q)]

\* lines 160-187
render(u, args) ==
    LET query == Visible(Filtered(AllAuthorities, args.filter), u)
        sorted == IF args.sort_by # None /\ args.sort_dir # None
                  THEN database_sort(query, args.sort_by, args.sort_dir)
                  ELSE query
    IN database_paginate(sorted, args.page, args.count)

\* what render may be handed
Filters == {None, <<"active", ";", "true">>, <<"owner", ";", "alice">>,
            <<"owner", ";", "bob">>}
RenderArgs ==
    {a \in [sort_by : {None, <<"id">>}, sort_dir : {None, <<"desc">>},
            page : {1, 2}, count : {1, 2}, filter : Filters] :
        (a.sort_by = None) <=> (a.sort_dir = None)}

\* the calls of render a behaviour makes: the first page of two, unsorted
RenderCalls == {a \in RenderArgs : a.page = 1 /\ a.count = 2 /\ a.sort_by = None}

\* the whole listing on one page, unfiltered and unsorted
UnfilteredArgs ==
    [sort_by |-> None, sort_dir |-> None, page |-> 1, count |-> MaxCreates,
     filter |-> None]

\* ------------------------------------------------------------------ reads
\* a lookup by id that hands an Authority only to an identity render would
\* show it to
GetOwned(u, authority_id) ==
    /\ last' = [op |-> "get", user |-> u, authority_id |-> authority_id,
                value |-> IF get(authority_id) \in Range(Visible(AllAuthorities, u))
                          THEN get(authority_id) ELSE NoId]
    /\ UNCHANGED <<db, user_roles, user_authorities, pc, frame, creates, updates>>

\* lines 114-122, called by identity u
Get(u, authority_id) ==
    /\ last' = [op |-> "get", user |-> u, authority_id |-> authority_id,
                value |-> get(authority_id)]
    /\ UNCHANGED <<db, user_roles, user_authorities, pc, frame, creates, updates>>

GetByName(authority_name) ==
    /\ last' = [op |-> "get_by_name", authority_name |-> authority_name,
                value |-> get_by_name(authority_name)]
    /\ UNCHANGED <<db, user_roles, user_authorities, pc, frame, creates, updates>>

GetAll ==
    /\ last' = [op |-> "get_all", value |-> get_all]
    /\ UNCHANGED <<db, user_roles, user_authorities, pc, frame, creates, updates>>

\* a resolver that also hands the caller the Role it found
GetAuthorityRoleGranting(u, ca_name) ==
    /\ \E out \in get_authority_role(u, ca_name) :
          /\ last' = [op |-> "get_authority_role", user |-> u, ca_name |-> ca_name,
                      status |-> out.status, value |-> out.value]
          /\ user_roles' = IF out.value = NoId THEN user_roles
                           ELSE [user_roles EXCEPT ![u] = Append(@, out.value)]
    /\ UNCHANGED <<db, user_authorities, pc, frame, creates, updates>>

\* lines 136-151, called by identity u
GetAuthorityRole(u, ca_name) ==
    /\ \E out \in get_authority_role(u, ca_name) :
          last' = [op |-> "get_authority_role", user |-> u, ca_name |-> ca_name,
                   status |-> out.status, value |-> out.value]
    /\ UNCHANGED <<db, user_roles, user_authorities, pc, frame, creates, updates>>

Render(u, args) ==
    /\ last' = [op |-> "render", user |-> u, args |-> args,
                value |-> render(u, args)]
    /\ UNCHANGED <<db, user_roles, user_authorities, pc, frame, creates, updates>>

LookupNames == {<<"ca1">>, <<"nope">>}

\* ------------------------------------------------------------------ update
\* database.update_list(authority, 'roles', Role, roles): the authority's
\* roles become exactly the listed ones
update_list(aid, role_ids) == BindRoles(roles, Range(role_ids), aid)

\* Python truthiness of the optional arguments roles and active
TruthyList(arg) == arg # None /\ arg[1] # <<>>
TruthyBool(arg) == arg # None /\ arg[1]

\* what update may be handed
\* description and owner: both supplied or both left out
UpdateTexts == {<<<<"active", "root">>, <<"bob">>>>, <<None, None>>}
UpdateActives == {None, Some(TRUE), Some(FALSE)}
UpdateRoles ==
    {None} \cup {Some(rs) : rs \in {q \in SeqsUpTo(DOMAIN roles, 2) :
                                       Cardinality(Range(q)) = Len(q)}}

\* an update that tests its optional arguments for presence, not truth
UpdateWhenSupplied(authority_id, description, owner, active, rolesArg) ==
    /\ updates < MaxUpdates
    /\ updates' = updates + 1
    /\ LET authority == get(authority_id) IN
       IF authority = NoId
       THEN /\ last' = [op |-> "update", authority_id |-> authority_id,
                        description |-> description, owner |-> owner,
                        roles |-> rolesArg, active |-> active,
                        status |-> "AttributeError"]
            /\ UNCHANGED <<roles, authorities>>
       ELSE /\ roles' = IF rolesArg # None
                        THEN update_list(authority, rolesArg[1])
                        ELSE roles
            /\ authorities' = [authorities EXCEPT ![authority] =
                  [@ EXCEPT !.active = IF active # None THEN active[1] ELSE @,
                            !.description = description,
                            !.owner = owner]]
            /\ last' = [op |-> "update", authority_id |-> authority_id,
                        description |-> description, owner |-> owner,
                        roles |-> rolesArg, active |-> active, status |-> "ok"]
    /\ UNCHANGED <<certificates, user_roles, user_authorities, pc, frame, creates>>

\* an update that keeps the description and the owner it is not handed
UpdateKeepsOmitted(authority_id, description, owner, active, rolesArg) ==
    /\ updates < MaxUpdates
    /\ updates' = updates + 1
    /\ LET authority == get(authority_id) IN
       IF authority = NoId
       THEN /\ last' = [op |-> "update", authority_id |-> authority_id,
                        description |-> description, owner |-> owner,
                        roles |-> rolesArg, active |-> active,
                        status |-> "AttributeError"]
            /\ UNCHANGED <<roles, authorities>>
       ELSE /\ roles' = IF TruthyList(rolesArg)
                        THEN update_list(authority, rolesArg[1])
                        ELSE roles
            /\ authorities' = [authorities EXCEPT ![authority] =
                  [@ EXCEPT !.active = IF TruthyBool(active) THEN active[1] ELSE @,
                            !.description = IF description # None
                                            THEN description ELSE @,
                            !.owner = IF owner # None THEN owner ELSE @]]
            /\ last' = [op |-> "update", authority_id |-> authority_id,
                        description |-> description, owner |-> owner,
                        roles |-> rolesArg, active |-> active, status |-> "ok"]
    /\ UNCHANGED <<certificates, user_roles, user_authorities, pc, frame, creates>>

\* lines 34-43
Update(authority_id, description, owner, active, rolesArg) ==
    /\ updates < MaxUpdates
    /\ updates' = updates + 1
    /\ LET authority == get(authority_id) IN
       IF authority = NoId
       THEN /\ last' = [op |-> "update", authority_id |-> authority_id,
                        description |-> description, owner |-> owner,
                        roles |-> rolesArg, active |-> active,
                        status |-> "AttributeError"]
            /\ UNCHANGED <<roles, authorities>>
       ELSE /\ roles' = IF TruthyList(rolesArg)
                        THEN update_list(authority, rolesArg[1])
                        ELSE roles
            /\ authorities' = [authorities EXCEPT ![authority] =
                  [@ EXCEPT !.active = IF TruthyBool(active) THEN active[1] ELSE @,
                            !.description = description,
                            !.owner = owner]]
            /\ last' = [op |-> "update", authority_id |-> authority_id,
                        description |-> description, owner |-> owner,
                        roles |-> rolesArg, active |-> active, status |-> "ok"]
    /\ UNCHANGED <<certificates, user_roles, user_authorities, pc, frame, creates>>

\* the outcome of a finished request is handed back to its caller
Return ==
    /\ last # Quiet
    /\ last' = Quiet
    /\ UNCHANGED <<db, user_roles, user_authorities, pc, frame, creates, updates>>

\* no request is in flight
AllIdle == (\A u \in Users : pc[u] = "idle") /\ last = Quiet

\* requests served one at a time, each to completion
Next ==
    \/ \E u \in Users, kw \in SerialKwargs : AllIdle /\ CreatePluginFails(u, kw)
    \/ \E u \in Users, kw \in SerialKwargs, ir \in SerialIssuerRoles :
          AllIdle /\ CreatePlugin(u, kw, ir)
    \/ \E u \in Users : CreateRole(u)
    \/ \E u \in Users : CreateUpdateCert(u)
    \/ \E u \in Users : CreateAuthority(u)
    \/ \E id \in 1..(Len(authorities) + 1), t \in UpdateTexts,
          a \in UpdateActives, rs \in UpdateRoles :
          AllIdle /\ Update(id, t[1], t[2], a, rs)
    \/ \E u \in Users, id \in 1..(Len(authorities) + 1) : AllIdle /\ Get(u, id)
    \/ \E n \in LookupNames : AllIdle /\ GetByName(n)
    \/ AllIdle /\ GetAll
    \/ \E u \in Users, n \in LookupNames : AllIdle /\ GetAuthorityRole(u, n)
    \/ \E u \in Users, args \in RenderCalls : AllIdle /\ Render(u, args)
    \/ Return

Spec == Init /\ [][Next]_vars

\* create requests of different identities interleaved at their commits
NextConcurrent ==
    \/ \E u \in Users, kw \in KwargsSet : CreatePluginFails(u, kw)
    \/ \E u \in Users, kw \in KwargsSet, ir \in IssuerRoles : CreatePlugin(u, kw, ir)
    \/ \E u \in Users : CreateRole(u)
    \/ \E u \in Users : CreateUpdateCert(u)
    \/ \E u \in Users : CreateAuthority(u)

SpecConcurrent == Init /\ [][NextConcurrent]_vars

\* what the plugin returns when every Role it asks for is an admin Role, no
\* name asked for twice
AdminIssuerRoles ==
    {ir \in SeqsUpTo({d \in [name : RoleNames, username : Usernames,
                              password : Passwords] : d.username = "admin"},
                     MaxDescriptors) :
        \A i, j \in DOMAIN ir : ir[i].name = ir[j].name => i = j}

\* the non-admin identity's reads, running between the steps of the create
\* requests and the updates of both identities
NextInterleaved ==
    \/ \E u \in Users, kw \in SerialKwargs, ir \in AdminIssuerRoles :
          CreatePlugin(u, kw, ir)
    \/ \E u \in Users : CreateRole(u)
    \/ \E u \in Users : CreateUpdateCert(u)
    \/ \E u \in Users : CreateAuthority(u)
    \/ \E id \in DOMAIN authorities, r \in DOMAIN roles :
          Update(id, None, None, None, Some(<<r>>))
    \/ \E u \in Users \ Admins, id \in 1..(Len(authorities) + 1) : Get(u, id)
    \/ \E n \in LookupNames : GetByName(n)
    \/ GetAll
    \/ \E u \in Users \ Admins, n \in LookupNames : GetAuthorityRole(u, n)
    \/ \E u \in Users \ Admins : Render(u, UnfilteredArgs)

SpecInterleaved == Init /\ [][NextInterleaved]_vars

\* ------------------------------------------------------------------ claims
PersistedBodies(certs) == {certs[c].body : c \in DOMAIN certs}

CertificatesOf(certs, body) == {c \in DOMAIN certs : certs[c].body = body}

\* a step in which identity u's create commits its Authority
AuthorityCommitted(u) ==
    /\ pc[u] = "authority"
    /\ pc'[u] = "idle"
    /\ Len(authorities') = Len(authorities) + 1

\* a step in which identity u's create builds its Authority object
AuthorityConstructed(u) ==
    frame[u].authority = None /\ frame'[u].authority # None

PluginCalled(u) ==
    /\ pc[u] = "idle"
    /\ creates' = creates + 1
    /\ pc'[u] = "roles" \/ (last'.op = "create" /\ last'.user = u)

\* C2: the step of create that calls the issuer plugin writes nothing,
\* whether the call succeeds or fails; a failed call ends the request with
\* the failure; and every write to the persisted rows or to an identity is
\* made by a request whose plugin call has already returned.
C2_PluginBeforeWrites ==
    [][/\ \A u \in Users :
             PluginCalled(u) =>
                /\ UNCHANGED <<db, user_roles, user_authorities>>
                /\ pc'[u] = "idle" =>
                      last'.status \in {"ProvisioningError", "KeyError"}
       /\ <<db, user_roles, user_authorities>>' # <<db, user_roles, user_authorities>>
             => \E u \in Users : pc[u] \in {"roles", "authority"} /\ frame'[u] # frame[u]
      ]_vars

\* the plugin failed while certificates, roles and an authority were persisted
C2_Witness ==
    /\ last.op = "create"
    /\ last.status = "ProvisioningError"
    /\ certificates # <<>>
    /\ roles # <<>>
    /\ authorities # <<>>

\* ------------------------------------------------------------------ C3
\* C3: when no create is in flight, every persisted Certificate is the root
\* Certificate of a persisted Authority.
C3_NoDanglingCertificate ==
    (\A u \in Users : pc[u] = "idle") =>
        \A c \in DOMAIN certificates :
            \E a \in DOMAIN authorities : authorities[a].body = certificates[c].body

\* ------------------------------------------------------------------ C4
UniqueAuthorityNames(table) ==
    \A a, b \in DOMAIN table :
        (table[a].name = table[b].name /\ table[a].name # None) => a = b

\* C4: a create that commits an Authority whose name a persisted Authority
\* already has fails with the integrity error and changes no Authority; one
\* whose name is free succeeds and appends its row; no step changes an
\* existing Authority row; and no two persisted Authorities share a name.
C4_UniqueNames ==
    [][/\ \A u \in Users :
             (pc[u] = "authority" /\ pc'[u] = "idle") =>
                 IF NameTaken(frame[u].authority.name)
                 THEN /\ last' = Finish(u, "create", "IntegrityError")
                      /\ authorities' = authorities
                 ELSE /\ last'.status = "ok"
                      /\ authorities' = Append(authorities, frame[u].authority)
       /\ \A a \in DOMAIN authorities :
             a \in DOMAIN authorities' /\ authorities'[a] = authorities[a]
       /\ UniqueAuthorityNames(authorities')
      ]_vars

\* of two overlapping creates of one name the one started second committed
\* its Authority and the one started first then failed
C4_Witness ==
    /\ last.op = "create"
    /\ last.status = "IntegrityError"
    /\ Len(authorities) = 1
    /\ authorities[1].body = 2
    /\ Len(certificates) = 2

\* ------------------------------------------------------------------ C5
\* every page of a listing, put together
AllPages(u, args) ==
    UNION {Range(render(u, [args EXCEPT !.page = p]).items) :
              p \in 1..(Len(authorities) + 1)}

RoleProvisioned(u) ==
    /\ pc[u] = "roles"
    /\ frame[u].issuer_roles # <<>>
    /\ Len(frame'[u].role_objs) = Len(frame[u].role_objs) + 1

\* C6: the Roles an identity holds change only in a step of its own create
\* that provisions a Role from a descriptor whose username is "admin", and
\* that step appends exactly this Role to the identity's Roles; every such
\* step makes the grant, and no step changes another identity's Roles.
C6_GrantToCreatorOnly ==
    [][\A u \in Users :
          /\ user_roles'[u] # user_roles[u] =>
                /\ RoleProvisioned(u)
                /\ Head(frame[u].issuer_roles).username = "admin"
                /\ \A v \in Users \ {u} : user_roles'[v] = user_roles[v]
          /\ RoleProvisioned(u) =>
                LET r == frame'[u].role_objs[Len(frame'[u].role_objs)] IN
                /\ roles'[r].name = Head(frame[u].issuer_roles).name
                /\ user_roles'[u] =
                      IF Head(frame[u].issuer_roles).username = "admin"
                      THEN Append(user_roles[u], r)
                      ELSE user_roles[u]
      ]_vars

\* alice was granted a Role while carol, creating at the same time, holds none
C6_Witness ==
    /\ user_roles["alice"] # <<>>
    /\ user_roles["carol"] = <<>>
    /\ pc["carol"] = "authority"
    /\ frame["carol"].role_objs # <<>>

\* ------------------------------------------------------------------ C7
UniqueRoleNames(table) ==
    \A r, q \in DOMAIN table : table[r].name = table[q].name => r = q

\* C7: a step of create that provisions a Role whose name a persisted Role
\* already has adds no row and attaches the existing Role; one whose name is
\* new adds exactly one row; and no two persisted Roles share a name.
C7_RoleReuse ==
    [][/\ \A u \in Users :
             RoleProvisioned(u) =>
                LET name == Head(frame[u].issuer_roles).name
                    r == frame'[u].role_objs[Len(frame'[u].role_objs)]
                IN IF RolesNamed(name) # {}
                   THEN roles' = roles /\ r \in RolesNamed(name)
                   ELSE Len(roles') = Len(roles) + 1 /\ r = Len(roles')
       /\ UniqueRoleNames(roles')
      ]_vars

\* two creates succeeded and share the one Role both plugins named
C7_Witness ==
    /\ Len(authorities) = 2
    /\ Len(roles) = 1
    /\ last.op = "create"
    /\ last.status = "ok"
    /\ Range(last.role_objs) = {1}

\* ------------------------------------------------------------------ C8
\* a step in which update found its authority and committed
Updated ==
    /\ updates' = updates + 1
    /\ last'.op = "update"
    /\ last'.status = "ok"

\* C8: an update handed a non-empty roles list leaves the Authority with
\* exactly the listed Roles; an update handed an empty list or no list
\* leaves the Authority's Roles as they were.
C8_RolesReplaced ==
    [][Updated =>
          LET aid == last'.authority_id IN
          IF last'.roles # None /\ last'.roles[1] # <<>>
          THEN RolesOf(roles', aid) = Range(last'.roles[1])
          ELSE RolesOf(roles', aid) = RolesOf(roles, aid) /\ roles' = roles
      ]_vars

\* an update replaced an Authority's two Roles by one of them
C8_Witness ==
    /\ last.op = "update"
    /\ last.status = "ok"
    /\ last.roles # None
    /\ Len(last.roles[1]) = 1
    /\ Len(roles) = 2
    /\ AuthorityRoles(last.authority_id) = Range(last.roles[1])
    /\ \E r \in DOMAIN roles : roles[r].authority_id = NoId
    /\ Len(authorities) = 1
    /\ creates = 1

\* ------------------------------------------------------------------ C9
\* C9: an update handed active = True leaves the Authority active; an update
\* handed False or nothing leaves the flag as it was; and no step turns an
\* active Authority inactive.
C9_ActiveOnlySet ==
    [][/\ Updated =>
             LET aid == last'.authority_id IN
             authorities'[aid].active =
                 IF last'.active = Some(TRUE) THEN TRUE
                 ELSE authorities[aid].active
       /\ \A a \in DOMAIN authorities :
             authorities[a].active => authorities'[a].active
      ]_vars

\* an update handed active = False was applied to an Authority that is active
C9_Witness ==
    /\ last.op = "update"
    /\ last.status = "ok"
    /\ last.active = Some(FALSE)
    /\ authorities[last.authority_id].active

\* ------------------------------------------------------------------ C10
\* C10: for an admin identity get_authority_role returns a Role of the named
\* Authority when that Authority exists and has a Role, and returns nothing,
\* without an error, when no Authority has the name.
C10_AdminRoleOrNone ==
    (last.op = "get_authority_role" /\ is_admin(last.user)) =>
        LET authority == get_by_name(last.ca_name) IN
        IF authority = NoId
        THEN last.status = "ok" /\ last.value = NoId
        ELSE AuthorityRoles(authority) # {} =>
                 last.status = "ok" /\ last.value \in AuthorityRoles(authority)

\* ------------------------------------------------------------------ C11
\* filter strings of the form field;value
FilterForms ==
    {<<"active", ";", "true">>, <<"active", ";", "false">>,
     <<"owner", ";", "alice">>, <<"name", ";", "ca1">>,
     <<"description", ";", "active">>}

\* an admin's render with this filter, everything on one page
AdminRender(filt) ==
    render("carol", [sort_by |-> None, sort_dir |-> None, page |-> 1,
                     count |-> MaxCreates, filter |-> filt])

\* C11: for every filter field;value render keeps exactly the Authorities
\* whose active flag equals the value when the field is "active", and
\* exactly the Authorities whose named field contains the value for every
\* other field.
C11_FilterPolicies ==
    last = Quiet =>
        \A filt \in FilterForms :
            LET terms == Split(filt, ";")
                Keep(aid) ==
                    IF terms[1] = <<"active">>
                    THEN BoolText(authorities[aid].active) = terms[2]
                    ELSE Contains(Column(aid, terms[1]), terms[2])
            IN AdminRender(filt).items = SelectSeq(AllAuthorities, Keep)

\* ------------------------------------------------------------------ C12
\* the keys the claim calls required
RequiredKeys == {"caName", "ownerEmail", "pluginName", "caDescription"}

\* C12: a create whose keyword dictionary lacks the CA name, the owner
\* email, the plugin name or the description fails with ValidationError:
\* a request running on such a dictionary commits no Authority, and when it
\* ends it ends with that error.
C12_MissingFieldFails ==
    [][\A u \in Users :
          (pc[u] # "idle" /\ \E k \in RequiredKeys : frame[u].kwargs[k] = None) =>
              /\ ~AuthorityCommitted(u)
              /\ pc'[u] = "idle" => last'.status = "ValidationError"
      ]_vars

\* ------------------------------------------------------------------ C13
\* C13: an update whose authority_id matches no persisted Authority fails
\* with NotFoundError.
C13_UnknownIdNotFound ==
    (last.op = "update" /\ last.authority_id \notin DOMAIN authorities) =>
        last.status = "NotFoundError"

\* ------------------------------------------------------------------ C14
\* C14: after a successful create the new Authority is among the caller's
\* authorities and the caller's unfiltered render lists it, whatever Roles
\* the plugin returned.
C14_CreatorListsOwn ==
    (last.op = "create" /\ last.status = "ok") =>
        /\ last.id \in Range(user_authorities[last.user])
        /\ last.id \in Range(render(last.user, UnfilteredArgs).items)

\* ------------------------------------------------------------------ C15
\* C15: get hands back the persisted Authority with the given id, or nothing
\* when there is none, whichever identity calls it: holding a Role of the
\* Authority or being an admin plays no part.
C15_GetIgnoresIdentity ==
    last.op = "get" =>
        last.value = IF last.authority_id \in DOMAIN authorities
                     THEN last.authority_id ELSE NoId

\* a non-admin identity holding no Role of an Authority got it by id, while
\* its unfiltered render does not list it
C15_Witness ==
    /\ last.op = "get"
    /\ ~is_admin(last.user)
    /\ last.value # NoId
    /\ AuthorityRoles(last.value) \cap Range(user_roles[last.user]) = {}
    /\ last.value \notin AllPages(last.user, UnfilteredArgs)

HeldMatches(u, i, ca_name) ==
    /\ roles[user_roles[u][i]].authority_id # NoId
    /\ authorities[roles[user_roles[u][i]].authority_id].name = ca_name

\* C17: for a non-admin identity get_authority_role returns, without error,
\* the first of the Roles the identity holds, in the order it holds them,
\* whose Authority is named ca_name, Roles that belong to no Authority being
\* passed over, and returns nothing when no Role it holds is one.
C17_FirstMatchingHeldRole ==
    (last.op = "get_authority_role" /\ ~is_admin(last.user)) =>
        LET u == last.user
            n == last.ca_name
        IN /\ last.status = "ok"
           /\ IF \E i \in DOMAIN user_roles[u] : HeldMatches(u, i, n)
              THEN \E i \in DOMAIN user_roles[u] :
                      /\ HeldMatches(u, i, n)
                      /\ \A j \in 1..(i - 1) : ~HeldMatches(u, j, n)
                      /\ last.value = user_roles[u][i]
              ELSE last.value = NoId

\* a non-admin identity holding two different Roles of the named Authority
\* was handed the one it holds first
C17_Witness ==
    /\ last.op = "get_authority_role"
    /\ ~is_admin(last.user)
    /\ \E i, j \in DOMAIN user_roles[last.user] :
          /\ i < j
          /\ HeldMatches(last.user, i, last.ca_name)
          /\ HeldMatches(last.user, j, last.ca_name)
          /\ user_roles[last.user][i] # user_roles[last.user][j]
          /\ last.value = user_roles[last.user][i]

\* ------------------------------------------------------------------ C18
ReadOps == {"get", "get_by_name", "get_all", "get_authority_role", "render"}

\* C18: a step of get, get_by_name, get_all, render or get_authority_role,
\* wherever it falls between the steps of create requests and updates,
\* leaves every persisted Certificate, Role and Authority and every
\* identity's Roles and Authorities as they were.
C18_ReadsChangeNothing ==
    [][last'.op \in ReadOps =>
          UNCHANGED <<certificates, roles, authorities, user_roles,
                      user_authorities>>
      ]_vars

\* a read was served after an update, while a create request that has
\* persisted its Certificate has not yet persisted its Authority
C18_Witness ==
    /\ last.op \in ReadOps
    /\ updates = 1
    /\ \E u \in Users : pc[u] = "authority"

\* ------------------------------------------------------------------ C19
\* the outcomes of a create that failed
CreateFailures ==
    {"KeyError", "ProvisioningError", "DuplicateRoleError", "IntegrityError"}

\* C19: a create that fails leaves no Role it created persisted and leaves
\* its caller holding no Role the caller did not hold before; stated for the
\* first create of a behaviour, before which no Role is persisted or held:
\* when it has failed, no Role is persisted and its caller holds none.
C19_FailedCreateLeavesNoRole ==
    (last.op = "create" /\ last.status \in CreateFailures /\ creates = 1) =>
        /\ roles = <<>>
        /\ user_roles[last.user] = <<>>

\* ------------------------------------------------------------------ C20
\* the names an Authority can be asked for by
AskedNames == CaNames \cup {<<"nope">>}

\* C20: for a non-admin identity get_authority_role(ca_name) returns a Role
\* exactly when the identity's unfiltered render, over all its pages, lists
\* an Authority named ca_name.
C20_ResolveIffListed ==
    last = Quiet =>
        \A u \in Users \ Admins, n \in AskedNames :
            \A out \in get_authority_role(u, n) :
                (out.status = "ok" /\ out.value # NoId) <=>
                    (\E a \in AllPages(u, UnfilteredArgs) : authorities[a].name = n)

\* after an update moved Roles between Authorities, a non-admin identity
\* resolves and is listed an Authority it did not create, and neither
\* resolves nor is listed the one it created
C20_Witness ==
    /\ last = Quiet
    /\ updates = 1
    /\ \E a, b \in DOMAIN authorities :
          /\ a \in Range(user_authorities["alice"])
          /\ b \notin Range(user_authorities["alice"])
          /\ FirstHeld(user_roles["alice"], authorities[b].name) # NoId
          /\ b \in AllPages("alice", UnfilteredArgs)
          /\ FirstHeld(user_roles["alice"], authorities[a].name) = NoId
          /\ a \notin AllPages("alice", UnfilteredArgs)

====
